---- MODULE Spec2Model ----
(***************************************************************************)
(* A model of cairosvg/bounding_box.py: the bounding boxes of SVG shapes,  *)
(* of path data and of groups, with the per-node cache.                    *)
(*                                                                         *)
(* Numbers are integers; float('inf') is the sentinel Inf.  Strings are    *)
(* sequences of one-character strings, so that parsing is modelled by what *)
(* it does.  A Python value that an evaluator hands back is a record       *)
(* [kind, box, exc]: a 4-tuple ("box"), None ("none") or a raised          *)
(* exception ("raise").                                                    *)
(***************************************************************************)
EXTENDS Integers, Sequences, FiniteSets, TLC

VARIABLES
    \* the document tree and the cache
    tag,          \* node -> node.tag
    attrs,        \* node -> attribute name -> string, or Absent
    text_box,     \* node -> the 'text_bounding_box' entry (a value, not a string)
    children,     \* node -> node.children
    cache,        \* node -> the 'bounding_box' entry written by calculate_bounding_box
    mutations,    \* number of external mutations so far
    last,         \* what the last calculate_bounding_box call did, and the
                  \* nodes whose latest evaluation was for a call on them
                  \* and gave a box without a size
    \* one run of bounding_box_path
    input,        \* the commands the path data was written from
    path_data, letter, previous_x, previous_y, bounding_box,
    pc,           \* "idle", "loop", "return" or "raise"
    exc,          \* the exception raised
    step          \* what the last iteration of the loop did, and the number
                  \* of iterations that went through

treevars == <<tag, attrs, text_box, children, cache, mutations, last>>
pathvars == <<input, path_data, letter, previous_x, previous_y, bounding_box,
              pc, exc, step>>
vars == <<treevars, pathvars>>

----------------------------------------------------------------------------
(* Bounds of the model *)

MaxMutations == 1
MaxCmds == 2

----------------------------------------------------------------------------
(* Python values *)

Inf == 1000000

BoxV(b) == [kind |-> "box", box |-> b, exc |-> ""]
NoneV == [kind |-> "none", box |-> <<>>, exc |-> ""]
RaiseV(e) == [kind |-> "raise", box |-> <<>>, exc |-> e]

isinf(v) == v >= Inf \/ v <= -Inf

Min2(a, b) == IF a <= b THEN a ELSE b
Max2(a, b) == IF a >= b THEN a ELSE b
MinOf(S) == CHOOSE m \in S : \A k \in S : m <= k
MaxOf(S) == CHOOSE m \in S : \A k \in S : m >= k
Range(s) == {s[i] : i \in DOMAIN s}

----------------------------------------------------------------------------
(* Strings: sequences of characters, and float() *)

Digits == <<"0", "1", "2", "3", "4", "5", "6", "7", "8", "9">>
IsDigit(c) == c \in Range(Digits)
DigitVal(c) == (CHOOSE i \in DOMAIN Digits : Digits[i] = c) - 1

RECURSIVE ParseNat(_)
ParseNat(s) ==
    IF Len(s) = 0 THEN 0
    ELSE ParseNat(SubSeq(s, 1, Len(s) - 1)) * 10 + DigitVal(s[Len(s)])

AllDigits(s) == Len(s) > 0 /\ \A i \in DOMAIN s : IsDigit(s[i])

\* float(s) on the strings of the model: an optional sign and digits, or
\* ValueError.  The result is [ok, val].
float(s) ==
    IF AllDigits(s) THEN [ok |-> TRUE, val |-> ParseNat(s)]
    ELSE IF Len(s) > 1 /\ s[1] = "-" /\ AllDigits(Tail(s))
         THEN [ok |-> TRUE, val |-> 0 - ParseNat(Tail(s))]
    ELSE [ok |-> FALSE, val |-> 0]

\* The decimal text of an integer (used to write the inputs).
RECURSIVE NatStr(_)
NatStr(n) ==
    IF n < 10 THEN <<Digits[n + 1]>>
    ELSE NatStr(n \div 10) \o <<Digits[(n % 10) + 1]>>
NumStr(n) == IF n < 0 THEN <<"-">> \o NatStr(0 - n) ELSE NatStr(n)

----------------------------------------------------------------------------
(* Box algebra *)

EMPTY_BOUNDING_BOX == <<Inf, Inf, 0, 0>>

\* extend_bounding_box(bounding_box, points): zip(*points) of no points
\* cannot be unpacked into x_list, y_list.
FromCorners(minx, miny, maxx, maxy) ==
    BoxV(<<minx, miny, maxx - minx, maxy - miny>>)

\* FarEdge without the test of the sentinel: the far edge of a box is always
\* min + size.
FarEdgeOfSentinel(min, size) == min + size

\* Lines 368-370: the far edge of a box along one axis.
FarEdge(min, size) == IF isinf(min) THEN 0 - Inf ELSE min + size

XList(points) == {points[i][1] : i \in DOMAIN points}
YList(points) == {points[i][2] : i \in DOMAIN points}

extend_bounding_box(box, points) ==
    IF points = <<>> THEN RaiseV("ValueError")
    ELSE FromCorners(MinOf({box[1]} \cup XList(points)),
                     MinOf({box[2]} \cup YList(points)),
                     MaxOf({FarEdge(box[1], box[3])} \cup XList(points)),
                     MaxOf({FarEdge(box[2], box[4])} \cup YList(points)))

\* inf + inf is inf; every other sum of the model is of finite numbers.
FloatAdd(a, b) == IF isinf(a) THEN a ELSE IF isinf(b) THEN b ELSE a + b

is_valid_bounding_box(v) ==
    v.kind = "box" /\ ~isinf(FloatAdd(v.box[1], v.box[2]))

is_non_empty_bounding_box(v) ==
    is_valid_bounding_box(v) /\ v.box[3] # 0 /\ v.box[4] # 0

\* combine_bounding_box(bounding_box, another_bounding_box): the first is a
\* box, the second a returned value (a box or None).
combine_bounding_box(box, another) ==
    IF is_valid_bounding_box(another)
    THEN extend_bounding_box(
             box, << <<another.box[1], another.box[2]>>,
                     <<another.box[1] + another.box[3],
                       another.box[2] + another.box[4]>> >>).box
    ELSE box

----------------------------------------------------------------------------
(* String operations used by the path interpreter *)

RECURSIVE lstrip(_)
lstrip(s) == IF Len(s) > 0 /\ s[1] = " " THEN lstrip(Tail(s)) ELSE s

RECURSIVE rstrip(_)
rstrip(s) ==
    IF Len(s) > 0 /\ s[Len(s)] = " " THEN rstrip(SubSeq(s, 1, Len(s) - 1)) ELSE s

\* str.strip()
strip(s) == rstrip(lstrip(s))

\* The index of the first space of s, or 0.
FirstSpace(s) ==
    IF \E i \in DOMAIN s : s[i] = " "
    THEN CHOOSE i \in DOMAIN s : s[i] = " " /\ \A j \in 1..(i - 1) : s[j] # " "
    ELSE 0

\* s.split(' ', 1): a list of one or of two strings.
SplitAt(s, i) ==
    IF i = 0 THEN <<s>>
    ELSE <<SubSeq(s, 1, i - 1), SubSeq(s, i + 1, Len(s))>>

split1(s) == SplitAt(s, FirstSpace(s))

\* helpers.PATH_LETTERS
PATH_LETTERS ==
    <<"a", "c", "h", "l", "m", "q", "s", "t", "v", "z",
      "A", "C", "H", "L", "M", "Q", "S", "T", "V", "Z">>

\* `token in PATH_LETTERS`, for a token of the normalized data (never empty,
\* and a letter is always a token of its own).
IsPathLetter(token) == Len(token) = 1 /\ token[1] \in Range(PATH_LETTERS)

\* path_data.replace(letter, ' {} '.format(letter)) for every letter.
RECURSIVE PadLetters(_)
PadLetters(s) ==
    IF Len(s) = 0 THEN <<>>
    ELSE (IF s[1] \in Range(PATH_LETTERS) THEN <<" ", s[1], " ">> ELSE <<s[1]>>)
         \o PadLetters(Tail(s))

\* helpers.normalize: a space before every minus sign, every run of spaces
\* and commas becomes one space, and the result is stripped.
RECURSIVE SpaceOut(_)
SpaceOut(s) ==
    IF Len(s) = 0 THEN <<>>
    ELSE (IF s[1] = "-" THEN <<" ", "-">>
          ELSE IF s[1] = "," THEN <<" ">>
          ELSE <<s[1]>>) \o SpaceOut(Tail(s))

RECURSIVE Collapse(_)
Collapse(s) ==
    IF Len(s) < 2 THEN s
    ELSE IF s[1] = " " /\ s[2] = " " THEN Collapse(Tail(s))
    ELSE <<s[1]>> \o Collapse(Tail(s))

normalize(s) == strip(Collapse(SpaceOut(s)))

\* helpers.point(None, string): the first two numbers of the string and the
\* rest of it; it fails when the string does not start with two numbers.
NoPoint == [ok |-> FALSE, x |-> 0, y |-> 0, rest |-> <<>>]

PointOf(fx, fy, b) ==
    IF fx.ok /\ fy.ok
    THEN [ok |-> TRUE, x |-> fx.val, y |-> fy.val,
          rest |-> IF Len(b) = 2 THEN b[2] ELSE <<>>]
    ELSE NoPoint

PointSecond(fx, b) == PointOf(fx, float(b[1]), b)

PointFirst(a) ==
    IF Len(a) = 2 THEN PointSecond(float(a[1]), split1(lstrip(a[2]))) ELSE NoPoint

point(s) == PointFirst(split1(strip(s)))

----------------------------------------------------------------------------
(* The elliptical arc solver *)

Abs(v) == IF v < 0 THEN 0 - v ELSE v

\* sqrt(n) of a perfect square n >= 0 that is at most limit * limit, else -1.
ExactSqrt(n, limit) ==
    IF \E r \in 0..limit : r * r = n
    THEN CHOOSE r \in 0..limit : r * r = n
    ELSE 0 - 1

\* angle(bx, by) lies in [0, 2 pi); the model keeps the vector and compares
\* angles exactly.  The angle is in [0, pi) iff Half is 0.
Half(v) == IF v[2] > 0 \/ (v[2] = 0 /\ v[1] > 0) THEN 0 ELSE 1

\* angle(u) < angle(v), for non-zero vectors.
AngleLess(u, v) ==
    \/ Half(u) < Half(v)
    \/ Half(u) = Half(v) /\ u[1] * v[2] - u[2] * v[1] > 0

\* The centre parameterisation of lines 253-275 for phi = 0, in doubled
\* coordinates: [kind, cx2, cy2, rx2, ry2] with cx2 = 2 cx and so on.  kind is
\* "ok", "zerodiv" (the division of line 258 by zero) or "outside" when the
\* square roots and quotients are not exact (such arcs are not inputs of the
\* model).
Centre(kind, cx2, cy2, rx2, ry2) ==
    [kind |-> kind, cx2 |-> cx2, cy2 |-> cy2, rx2 |-> rx2, ry2 |-> ry2]

NoCentre(kind) == Centre(kind, 0, 0, 0, 0)

\* Lines 261-267, radicant < 0: ratio = rx / ry, ry = sqrt(y1prime^2 +
\* x1prime^2 / ratio^2), rx = ratio * ry, and the centre is the midpoint.
\* r2 is the exact root of dx^2 + dy^2, or -1.
ArcRescaled(x1, y1, rx, ry, x, y, r2) ==
    IF rx = ry /\ r2 >= 0 THEN Centre("ok", x1 + x, y1 + y, r2, r2)
    ELSE NoCentre("outside")

\* Lines 271-275: cxn / ry is 2 cxprime and cyn / rx is 2 cyprime.
ArcCentred(x1, y1, rx, ry, x, y, cxn, cyn) ==
    IF cxn % ry = 0 /\ cyn % rx = 0
    THEN Centre("ok", (cxn \div ry) + x1 + x, (cyn \div rx) + y1 + y, 2 * rx, 2 * ry)
    ELSE NoCentre("outside")

\* Line 269: factor, for q the exact root of radicant, or -1.
ArcFactor(x1, y1, rx, ry, large, sweep, x, y, q) ==
    IF q < 0 THEN NoCentre("outside")
    ELSE ArcCentred(x1, y1, rx, ry, x, y,
                    (IF large = sweep THEN 0 - 1 ELSE 1) * q * rx * (y1 - y),
                    (0 - (IF large = sweep THEN 0 - 1 ELSE 1) * q) * ry * (x1 - x))

\* Lines 256-258: radicant is N / D, for D four times the denominator.
ArcRadicant(x1, y1, rx, ry, large, sweep, x, y, D) ==
    IF D = 0 THEN NoCentre("zerodiv")
    ELSE IF 4 * rx * rx * ry * ry - D < 0
         THEN ArcRescaled(x1, y1, rx, ry, x, y,
                          ExactSqrt((x1 - x) * (x1 - x) + (y1 - y) * (y1 - y),
                                    Abs(x1 - x) + Abs(y1 - y)))
    ELSE ArcFactor(x1, y1, rx, ry, large, sweep, x, y,
                   IF (4 * rx * rx * ry * ry - D) % D = 0
                   THEN ExactSqrt((4 * rx * rx * ry * ry - D) \div D, 2 * rx * ry)
                   ELSE 0 - 1)

ArcCentre(x1, y1, rx, ry, large, sweep, x, y) ==
    ArcRadicant(x1, y1, rx, ry, large, sweep, x, y,
                rx * rx * (y1 - y) * (y1 - y) + ry * ry * (x1 - x) * (x1 - x))

\* Lines 331-342: the arc does not reach the extremum at angle t.
Replaced(t, angle1, angle2, other_arc) ==
    \/ ~other_arc /\ (AngleLess(t, angle1) \/ AngleLess(angle2, t))
    \/ other_arc /\ ~(AngleLess(t, angle1) \/ AngleLess(angle2, t))

\* Lines 277-285 and 331-342 for phi = 0: <<minx, miny, maxx, maxy>> doubled.
\* angle(-rx, 0), angle(rx, 0), angle(0, -ry) and angle(0, ry) are the angles
\* of the four axis directions.
ArcSwept(c, x1, y1, x, y, angle1, angle2, other_arc) ==
    << IF Replaced(<<0 - 1, 0>>, angle1, angle2, other_arc)
       THEN 2 * Min2(x, x1) ELSE c.cx2 - c.rx2,
       IF Replaced(<<0, 0 - 1>>, angle1, angle2, other_arc)
       THEN 2 * Min2(y, y1) ELSE c.cy2 - c.ry2,
       IF Replaced(<<1, 0>>, angle1, angle2, other_arc)
       THEN 2 * Max2(x, x1) ELSE c.cx2 + c.rx2,
       IF Replaced(<<0, 1>>, angle1, angle2, other_arc)
       THEN 2 * Max2(y, y1) ELSE c.cy2 + c.ry2 >>

\* Lines 326-329.
ArcOrdered(c, x1, y1, x, y, angle1, angle2) ==
    IF AngleLess(angle2, angle1)
    THEN ArcSwept(c, x1, y1, x, y, angle2, angle1, TRUE)
    ELSE ArcSwept(c, x1, y1, x, y, angle1, angle2, FALSE)

\* The vector from the centre to a point, doubled.
FromCentre(c, px, py) == <<2 * px - c.cx2, 2 * py - c.cy2>>

\* ArcExtrema with the angles always taken from the end point to the start
\* point, whatever the sweep flag says.
ArcExtremaAgainstSweep(c, x1, y1, sweep, x, y) ==
    ArcOrdered(c, x1, y1, x, y, FromCentre(c, x, y), FromCentre(c, x1, y1))

\* Lines 320-324.
ArcExtrema(c, x1, y1, sweep, x, y) ==
    IF sweep
    THEN ArcOrdered(c, x1, y1, x, y, FromCentre(c, x1, y1), FromCentre(c, x, y))
    ELSE ArcOrdered(c, x1, y1, x, y, FromCentre(c, x, y), FromCentre(c, x1, y1))

OutsideV == [kind |-> "outside", box |-> <<>>, exc |-> ""]

\* Line 344, for the doubled extrema e.
ArcBox(e) ==
    IF \E i \in 1..4 : e[i] % 2 # 0 THEN OutsideV
    ELSE FromCorners(e[1] \div 2, e[2] \div 2, e[3] \div 2, e[4] \div 2)

ArcOfCentre(c, x1, y1, sweep, x, y) ==
    IF c.kind = "zerodiv" THEN RaiseV("ZeroDivisionError")
    ELSE IF c.kind = "outside" THEN OutsideV
    ELSE IF FromCentre(c, x1, y1) = <<0, 0>> \/ FromCentre(c, x, y) = <<0, 0>>
         THEN RaiseV("ZeroDivisionError")
    ELSE ArcBox(ArcExtrema(c, x1, y1, sweep, x, y))

\* bounding_box_elliptical_arc(x1, y1, rx, ry, phi, large, sweep, x, y), with
\* the rotation in degrees (phi = radians(rotation)).  The value is a 4-tuple,
\* a raised ZeroDivisionError, or of kind "outside" for the arcs the model does
\* not cover: a rotation other than 0, or inexact arithmetic.
bounding_box_elliptical_arc(x1, y1, rx, ry, rotation, large, sweep, x, y) ==
    IF rx = 0 \/ ry = 0
    THEN BoxV(<<Min2(x, x1), Min2(y, y1), Max2(x, x1), Max2(y, y1)>>)
    ELSE IF rotation # 0 THEN OutsideV
    ELSE ArcOfCentre(ArcCentre(x1, y1, Abs(rx), Abs(ry), large, sweep, x, y),
                     x1, y1, sweep, x, y)

----------------------------------------------------------------------------
(* The path interpreter: bounding_box_path *)

\* The state of the interpreter: the local variables of bounding_box_path, pc
\* ("loop" at the head of the while loop, "return", "raise", or "outside" when
\* an arc is not covered by the model), the exception raised, and what the
\* last iteration did: its branch and the value the arc solver returned.
NoArc == NoneV

PathState(d, l, px, py, box, p, e, b, a) ==
    [path_data |-> d, letter |-> l, previous_x |-> px, previous_y |-> py,
     bounding_box |-> box, pc |-> p, exc |-> e, branch |-> b, arc |-> a]

\* Lines 98-108.
PathStart(d) ==
    PathState(normalize(PadLetters(d)), "M", 0, 0, EMPTY_BOUNDING_BOX,
              "loop", "", "", NoArc)

PathRaise(st, l, b, e) ==
    [st EXCEPT !.letter = l, !.pc = "raise", !.exc = e, !.branch = b, !.arc = NoArc]

\* The end of an iteration that raised nothing (line 225).
PathNext(l, d, px, py, box, b, a) ==
    PathState(strip(d), l, px, py, box, "loop", "", b, a)

\* ScanOnce taking the next character the way a slice would: past the first
\* character of a flag, the end of the data gives no character and no failure.
ScanOnceSliced(flag, d) ==
    IF Len(d) = 0
    THEN [ok |-> flag # <<>>, flag |-> flag, rest |-> d]
    ELSE [ok |-> TRUE, flag |-> flag \o <<d[1]>>, rest |-> strip(Tail(d))]

\* Lines 122 and 124 (125 and 127): flag + path_data[0], path_data[1:].strip();
\* path_data[0] of the empty string raises IndexError.
ScanOnce(flag, d) ==
    IF Len(d) = 0
    THEN [ok |-> FALSE, flag |-> flag, rest |-> d]
    ELSE [ok |-> TRUE, flag |-> flag \o <<d[1]>>, rest |-> strip(Tail(d))]

\* Lines 123-124: characters are added to the flag until its last one is a
\* digit.
RECURSIVE ScanMore(_, _)

ScanAgain(r) == IF ~r.ok THEN r ELSE ScanMore(r.flag, r.rest)

ScanMore(flag, d) ==
    IF IsDigit(flag[Len(flag)]) THEN [ok |-> TRUE, flag |-> flag, rest |-> d]
    ELSE ScanAgain(ScanOnce(flag, d))

\* Lines 122-124 (125-127): one flag.
ScanFlag(d) == ScanAgain(ScanOnce(<<>>, d))

\* A relative coordinate made absolute.
AbsX(st, rel, v) == IF rel THEN v + st.previous_x ELSE v
AbsY(st, rel, v) == IF rel THEN v + st.previous_y ELSE v

\* Lines 139-144: the value of the arc solver is cut into two points.
ArcExtend(st, l, x, y, d, arc_bounding_box) ==
    IF arc_bounding_box.kind = "raise" THEN PathRaise(st, l, "A", arc_bounding_box.exc)
    ELSE IF arc_bounding_box.kind = "outside"
         THEN [st EXCEPT !.letter = l, !.pc = "outside", !.branch = "A"]
    ELSE PathNext(l, d, x, y,
                  extend_bounding_box(
                      st.bounding_box,
                      <<SubSeq(arc_bounding_box.box, 1, 2),
                        SubSeq(arc_bounding_box.box, 3, 4)>>).box,
                  "A", arc_bounding_box)

\* Lines 131-140.
ArcEnd(st, l, r, rotation, large, sweep, e) ==
    IF ~e.ok THEN PathRaise(st, l, "A", "PointError")
    ELSE ArcExtend(st, l, AbsX(st, l = "a", e.x), AbsY(st, l = "a", e.y), e.rest,
                   bounding_box_elliptical_arc(
                       st.previous_x, st.previous_y, r.x, r.y, rotation,
                       large, sweep, AbsX(st, l = "a", e.x), AbsY(st, l = "a", e.y)))

\* Line 129: bool(int(large)), bool(int(sweep)).
ArcFlags(st, l, r, rotation, ilarge, isweep, d) ==
    IF ~ilarge.ok \/ ~isweep.ok THEN PathRaise(st, l, "A", "ValueError")
    ELSE ArcEnd(st, l, r, rotation, ilarge.val # 0, isweep.val # 0, point(d))

\* Lines 125-127.
ArcSweep(st, l, r, rotation, large, sweep) ==
    IF ~sweep.ok THEN PathRaise(st, l, "A", "IndexError")
    ELSE ArcFlags(st, l, r, rotation, float(large), float(sweep.flag), sweep.rest)

\* Lines 122-124.
ArcLarge(st, l, r, rotation, large) ==
    IF ~large.ok THEN PathRaise(st, l, "A", "IndexError")
    ELSE ArcSweep(st, l, r, rotation, large.flag, ScanFlag(large.rest))

\* Line 118: radians(float(rotation)); the model keeps the degrees.
ArcRotation(st, l, r, frot, d) ==
    IF ~frot.ok THEN PathRaise(st, l, "A", "ValueError")
    ELSE ArcLarge(st, l, r, frot.val, ScanFlag(d))

\* Line 117: rotation, path_data = path_data.split(' ', 1).
ArcSplit(st, l, r, rot) ==
    IF Len(rot) < 2 THEN PathRaise(st, l, "A", "ValueError")
    ELSE ArcRotation(st, l, r, float(rot[1]), rot[2])

\* Line 116.
ArcRadii(st, l, r) ==
    IF ~r.ok THEN PathRaise(st, l, "A", "PointError")
    ELSE ArcSplit(st, l, r, split1(r.rest))

\* Lines 114-144.
BranchArc(st, l, d) == ArcRadii(st, l, point(d))

\* CurveEnd extending the box with the end point of the curve only.
CurveEndPointOnly(st, l, p1, p2, p) ==
    IF ~p.ok THEN PathRaise(st, l, "C", "PointError")
    ELSE PathNext(l, p.rest, AbsX(st, l = "c", p.x), AbsY(st, l = "c", p.y),
                  extend_bounding_box(
                      st.bounding_box,
                      << <<AbsX(st, l = "c", p.x), AbsY(st, l = "c", p.y)>> >>).box,
                  "C", NoArc)

\* Lines 152-165.
CurveEnd(st, l, p1, p2, p) ==
    IF ~p.ok THEN PathRaise(st, l, "C", "PointError")
    ELSE PathNext(l, p.rest, AbsX(st, l = "c", p.x), AbsY(st, l = "c", p.y),
                  extend_bounding_box(
                      st.bounding_box,
                      << <<AbsX(st, l = "c", p1.x), AbsY(st, l = "c", p1.y)>>,
                         <<AbsX(st, l = "c", p2.x), AbsY(st, l = "c", p2.y)>>,
                         <<AbsX(st, l = "c", p.x), AbsY(st, l = "c", p.y)>> >>).box,
                  "C", NoArc)

CurveSecond(st, l, p1, p2) ==
    IF ~p2.ok THEN PathRaise(st, l, "C", "PointError")
    ELSE CurveEnd(st, l, p1, p2, point(p2.rest))

CurveFirst(st, l, p1) ==
    IF ~p1.ok THEN PathRaise(st, l, "C", "PointError")
    ELSE CurveSecond(st, l, p1, point(p1.rest))

\* Lines 146-165.
BranchCurve(st, l, d) == CurveFirst(st, l, point(d))

\* Lines 167-178 and 212-223: the operand is the text of the token, never
\* converted to a number.  For h and v, line 173 (218) adds a number to that
\* text; for H and V, min() of line 373 compares a number with it.  Both raise
\* TypeError, so previous_x is never set to a text.
BranchHorizontal(st, l, d) == PathRaise(st, l, "H", "TypeError")

BranchVertical(st, l, d) == PathRaise(st, l, "V", "TypeError")

\* Lines 184-192.
LineEnd(st, l, p) ==
    IF ~p.ok THEN PathRaise(st, l, "L", "PointError")
    ELSE PathNext(l, p.rest,
                  AbsX(st, l \in {"l", "m", "t"}, p.x),
                  AbsY(st, l \in {"l", "m", "t"}, p.y),
                  extend_bounding_box(
                      st.bounding_box,
                      << <<AbsX(st, l \in {"l", "m", "t"}, p.x),
                           AbsY(st, l \in {"l", "m", "t"}, p.y)>> >>).box,
                  "L", NoArc)

\* Lines 180-192.
BranchLine(st, l, d) == LineEnd(st, l, point(d))

\* Lines 199-210.
QuadraticEnd(st, l, p1, p) ==
    IF ~p.ok THEN PathRaise(st, l, "Q", "PointError")
    ELSE PathNext(l, p.rest,
                  AbsX(st, l \in {"q", "s"}, p.x), AbsY(st, l \in {"q", "s"}, p.y),
                  extend_bounding_box(
                      st.bounding_box,
                      << <<AbsX(st, l \in {"q", "s"}, p1.x),
                           AbsY(st, l \in {"q", "s"}, p1.y)>>,
                         <<AbsX(st, l \in {"q", "s"}, p.x),
                           AbsY(st, l \in {"q", "s"}, p.y)>> >>).box,
                  "Q", NoArc)

QuadraticFirst(st, l, p1) ==
    IF ~p1.ok THEN PathRaise(st, l, "Q", "PointError")
    ELSE QuadraticEnd(st, l, p1, point(p1.rest))

\* Lines 194-210.
BranchQuadratic(st, l, d) == QuadraticFirst(st, l, point(d))

\* ReadLetterOf falling back to the letter M when the data starts with none.
ReadLetterOrMove(l, d0, sp) ==
    IF IsPathLetter(sp[1])
    THEN [letter |-> sp[1][1], path_data |-> sp[2]]
    ELSE [letter |-> "M", path_data |-> d0]

\* Lines 110-112: the letter of this iteration and the data after it, for the
\* stripped data d0.
ReadLetterOf(l, d0, sp) ==
    IF IsPathLetter(sp[1])
    THEN [letter |-> sp[1][1], path_data |-> sp[2]]
    ELSE [letter |-> l, path_data |-> d0]

ReadLetterIn(l, d0) == ReadLetterOf(l, d0, split1(d0 \o <<" ">>))

ReadLetter(l, d) == ReadLetterIn(l, strip(d))

\* Lines 114-223: the branch of the letter l, on the data d.
Dispatch(st, l, d) ==
    IF l \in {"a", "A"} THEN BranchArc(st, l, d)
    ELSE IF l \in {"c", "C"} THEN BranchCurve(st, l, d)
    ELSE IF l \in {"h", "H"} THEN BranchHorizontal(st, l, d)
    ELSE IF l \in {"l", "L", "m", "M", "t", "T"} THEN BranchLine(st, l, d)
    ELSE IF l \in {"q", "Q", "s", "S"} THEN BranchQuadratic(st, l, d)
    ELSE IF l \in {"v", "V"} THEN BranchVertical(st, l, d)
    ELSE PathNext(l, d, st.previous_x, st.previous_y, st.bounding_box, "Z", NoArc)

PathIteration(st, rl) == Dispatch(st, rl.letter, rl.path_data)

\* One iteration of the while loop, lines 109-225, or the return of line 227.
PathStep(st) ==
    IF st.pc # "loop" THEN st
    ELSE IF st.path_data = <<>> THEN [st EXCEPT !.pc = "return"]
    ELSE PathIteration(st, ReadLetter(st.letter, st.path_data))

\* The loop run to its end.  An iteration that changes nothing (a letter with
\* no branch, followed by operands) repeats for ever: pc "hang".
RECURSIVE PathRun(_)

PathAdvance(st, n) ==
    IF n.pc = "loop" /\ n.path_data = st.path_data /\ n.letter = st.letter
    THEN [st EXCEPT !.pc = "hang"]
    ELSE PathRun(n)

PathRun(st) == IF st.pc # "loop" THEN st ELSE PathAdvance(st, PathStep(st))

PathValue(st) ==
    IF st.pc = "return" THEN BoxV(st.bounding_box)
    ELSE IF st.pc = "raise" THEN RaiseV(st.exc)
    ELSE [kind |-> st.pc, box |-> <<>>, exc |-> ""]

\* bounding_box_path(node) for the text d of node's 'd' attribute: the value
\* returned or raised; kind "hang" or "outside" otherwise.
bounding_box_path(d) == PathValue(PathRun(PathStart(d)))

----------------------------------------------------------------------------
(* The nodes and the shape evaluators *)

Nodes == {1, 2, 3, 4}

AttrNames ==
    {"x", "y", "width", "height", "cx", "cy", "r", "rx", "ry",
     "x1", "y1", "x2", "y2", "points", "d", "href", "requiredExtensions"}

\* An attribute the node does not have.
Absent == <<"absent">>

\* The 'bounding_box' entry of a node that has none.
NoCache == [n \in Nodes |-> NoneV]

\* node.get(name, default)
Get(n, name, default) ==
    IF attrs[n][name] = Absent THEN default ELSE attrs[n][name]

\* float(node.get(name, '0'))
FloatAttr(n, name) == float(Get(n, name, <<"0">>))

\* bounding_box_rect without the max(..., 0) of lines 52-53.
RectUnclamped(n) ==
    LET x == FloatAttr(n, "x")
        y == FloatAttr(n, "y")
        w == FloatAttr(n, "width")
        h == FloatAttr(n, "height")
    IN  IF ~x.ok \/ ~y.ok \/ ~w.ok \/ ~h.ok THEN RaiseV("ValueError")
        ELSE BoxV(<<x.val, y.val, w.val, h.val>>)

bounding_box_rect(n) ==
    LET x == FloatAttr(n, "x")
        y == FloatAttr(n, "y")
        w == FloatAttr(n, "width")
        h == FloatAttr(n, "height")
    IN  IF ~x.ok \/ ~y.ok \/ ~w.ok \/ ~h.ok THEN RaiseV("ValueError")
        ELSE BoxV(<<x.val, y.val, Max2(w.val, 0), Max2(h.val, 0)>>)

bounding_box_circle(n) ==
    LET cx == FloatAttr(n, "cx")
        cy == FloatAttr(n, "cy")
        r == FloatAttr(n, "r")
        radius == Max2(r.val, 0)
    IN  IF ~cx.ok \/ ~cy.ok \/ ~r.ok THEN RaiseV("ValueError")
        ELSE BoxV(<<cx.val - radius, cy.val - radius, 2 * radius, 2 * radius>>)

bounding_box_ellipse(n) ==
    LET cx == FloatAttr(n, "cx")
        cy == FloatAttr(n, "cy")
        rx == FloatAttr(n, "rx")
        ry == FloatAttr(n, "ry")
        radius_x == Max2(rx.val, 0)
        radius_y == Max2(ry.val, 0)
    IN  IF ~cx.ok \/ ~cy.ok \/ ~rx.ok \/ ~ry.ok THEN RaiseV("ValueError")
        ELSE BoxV(<<cx.val - radius_x, cy.val - radius_y,
                    2 * radius_x, 2 * radius_y>>)

bounding_box_line(n) ==
    LET x1 == FloatAttr(n, "x1")
        y1 == FloatAttr(n, "y1")
        x2 == FloatAttr(n, "x2")
        y2 == FloatAttr(n, "y2")
        x == Min2(x1.val, x2.val)
        y == Min2(y1.val, y2.val)
    IN  IF ~x1.ok \/ ~y1.ok \/ ~x2.ok \/ ~y2.ok THEN RaiseV("ValueError")
        ELSE BoxV(<<x, y, Max2(x1.val, x2.val) - x, Max2(y1.val, y2.val) - y>>)

\* The loop of lines 90-92: it runs while the list `points` is not empty,
\* and the list starts empty.  The result is [ok, points].
RECURSIVE PolylineLoop(_, _)
PolylineLoop(points, normalized_points) ==
    IF points # <<>>
    THEN LET p == point(normalized_points)
         IN  IF ~p.ok THEN [ok |-> FALSE, points |-> points]
             ELSE PolylineLoop(Append(points, <<p.x, p.y>>), p.rest)
    ELSE [ok |-> TRUE, points |-> points]

bounding_box_polyline(n) ==
    LET normalized_points == normalize(Get(n, "points", <<>>))
        loop == PolylineLoop(<<>>, normalized_points)
    IN  IF ~loop.ok THEN RaiseV("PointError")
        ELSE extend_bounding_box(EMPTY_BOUNDING_BOX, loop.points)

bounding_box_text(n) == text_box[n]

\* The reference resolver (parse_url and Tree): the node that the text "#k"
\* names, or 0 when there is none.
Resolve(href) ==
    IF \E k \in Nodes : href = <<"#">> \o NatStr(k)
    THEN CHOOSE k \in Nodes : href = <<"#">> \o NatStr(k)
    ELSE 0

\* match_features(tree.xml_tree): a node that requires an extension does not
\* apply.
match_features(k) == attrs[k]["requiredExtensions"] = Absent

BOUNDING_BOX_METHODS ==
    {"rect", "circle", "ellipse", "line", "polyline", "polygon", "path",
     "text", "tspan", "textPath", "g", "use", "marker"}

\* A call's outcome: the value returned or raised, the cache entries after
\* it, and the nodes whose evaluator ran.
Outcome(v, c, ran) == [ret |-> v, cache |-> c, ran |-> ran]

Returned(v) == v.kind \in {"box", "none"}

RECURSIVE calculate_bounding_box(_, _)
RECURSIVE bounding_box_group(_, _, _, _)

\* Lines 360-362, for the node k the reference resolves to (0 for none).
UseTarget(k, c) ==
    IF k = 0 THEN Outcome(RaiseV("ResolveError"), c, {})
    ELSE IF ~match_features(k) THEN Outcome(NoneV, c, {})
    ELSE calculate_bounding_box(k, c)

bounding_box_use(n, c) == UseTarget(Resolve(Get(n, "href", <<>>)), c)

\* BOUNDING_BOX_METHODS[node.tag](node), with the cache entries c.
Evaluate(n, c) ==
    IF tag[n] = "rect" THEN Outcome(bounding_box_rect(n), c, {})
    ELSE IF tag[n] = "circle" THEN Outcome(bounding_box_circle(n), c, {})
    ELSE IF tag[n] = "ellipse" THEN Outcome(bounding_box_ellipse(n), c, {})
    ELSE IF tag[n] = "line" THEN Outcome(bounding_box_line(n), c, {})
    ELSE IF tag[n] \in {"polyline", "polygon"}
         THEN Outcome(bounding_box_polyline(n), c, {})
    ELSE IF tag[n] = "path"
         THEN Outcome(bounding_box_path(Get(n, "d", <<>>)), c, {})
    ELSE IF tag[n] \in {"text", "tspan", "textPath"}
         THEN Outcome(bounding_box_text(n), c, {})
    ELSE IF tag[n] \in {"g", "marker"}
         THEN bounding_box_group(children[n], EMPTY_BOUNDING_BOX, c, {})
    ELSE bounding_box_use(n, c)

\* Lines 351-352, for the outcome r of the call on the child kids[1].
GroupChild(kids, box, ran, r) ==
    IF ~Returned(r.ret) THEN Outcome(r.ret, r.cache, ran \cup r.ran)
    ELSE bounding_box_group(Tail(kids), combine_bounding_box(box, r.ret),
                            r.cache, ran \cup r.ran)

\* bounding_box_group: the loop over node.children, from the child kids[1]
\* on, with the box combined so far.
bounding_box_group(kids, box, c, ran) ==
    IF kids = <<>> THEN Outcome(BoxV(box), c, ran)
    ELSE GroupChild(kids, box, ran, calculate_bounding_box(kids[1], c))

\* StoreAndGet with the test of line 43 weakened to is_valid_bounding_box.
StoreValid(n, r) ==
    IF ~Returned(r.ret) THEN Outcome(r.ret, r.cache, r.ran \cup {n})
    ELSE IF is_valid_bounding_box(r.ret)
         THEN Outcome(r.ret, [r.cache EXCEPT ![n] = r.ret], r.ran \cup {n})
    ELSE Outcome(r.cache[n], r.cache, r.ran \cup {n})

\* StoreAndGet without the test of line 43: every returned box is stored.
StoreReturned(n, r) ==
    IF ~Returned(r.ret) THEN Outcome(r.ret, r.cache, r.ran \cup {n})
    ELSE IF r.ret.kind = "box"
         THEN Outcome(r.ret, [r.cache EXCEPT ![n] = r.ret], r.ran \cup {n})
    ELSE Outcome(r.cache[n], r.cache, r.ran \cup {n})

\* Lines 43-45, for the outcome r of the evaluator.
StoreAndGet(n, r) ==
    IF ~Returned(r.ret) THEN Outcome(r.ret, r.cache, r.ran \cup {n})
    ELSE IF is_non_empty_bounding_box(r.ret)
         THEN Outcome(r.ret, [r.cache EXCEPT ![n] = r.ret], r.ran \cup {n})
    ELSE Outcome(r.cache[n], r.cache, r.ran \cup {n})

\* calculate_bounding_box without the test of line 41 for a cached box.
CalculateAnew(n, c) ==
    IF tag[n] \in BOUNDING_BOX_METHODS
    THEN StoreAndGet(n, Evaluate(n, c))
    ELSE Outcome(c[n], c, {})

\* Lines 41-45.
calculate_bounding_box(n, c) ==
    IF c[n] = NoneV /\ tag[n] \in BOUNDING_BOX_METHODS
    THEN StoreAndGet(n, Evaluate(n, c))
    ELSE Outcome(c[n], c, {})

----------------------------------------------------------------------------
(* Path data written from commands *)

Cmd(l, ops) == [l |-> l, ops |-> ops]

RECURSIVE JoinNumbers(_, _)
JoinNumbers(ops, sep) ==
    IF Len(ops) = 0 THEN <<>>
    ELSE IF Len(ops) = 1 THEN NumStr(ops[1])
    ELSE NumStr(ops[1]) \o <<sep>> \o JoinNumbers(Tail(ops), sep)

\* The text of the commands from the i-th on.  The letter of a command of
\* `implicit` is left out.  The compact style writes "M0,0L10,10" for
\* "M 0 0 L 10 10".
RECURSIVE RenderFrom(_, _, _, _)
RenderFrom(cmds, i, implicit, compact) ==
    IF i > Len(cmds) THEN <<>>
    ELSE
        LET c == cmds[i]
            head == IF i \in implicit THEN <<>>
                    ELSE IF compact \/ c.ops = <<>> THEN <<c.l>>
                    ELSE <<c.l, " ">>
            body == JoinNumbers(c.ops, IF compact THEN "," ELSE " ")
            sep == IF i = Len(cmds) THEN <<>>
                   ELSE IF ~compact THEN <<" ">>
                   ELSE IF (i + 1) \in implicit THEN <<",">>
                   ELSE <<>>
        IN  head \o body \o sep \o RenderFrom(cmds, i + 1, implicit, compact)

Render(cmds, implicit, compact) == RenderFrom(cmds, 1, implicit, compact)

----------------------------------------------------------------------------
(* The documents of the model *)

Attrs(r) == [a \in AttrNames |-> IF a \in DOMAIN r THEN r[a] ELSE Absent]
NoAttrs == [a \in AttrNames |-> Absent]

Scene(tags, as, texts) ==
    [tag |-> [n \in Nodes |-> tags[n]],
     attrs |-> [n \in Nodes |-> as[n]],
     text |-> [n \in Nodes |-> texts[n]]]

NoTexts == <<NoneV, NoneV, NoneV, NoneV>>

RectAttrs(x, y, w, h) ==
    Attrs([x |-> NumStr(x), y |-> NumStr(y), width |-> NumStr(w), height |-> NumStr(h)])
CircleAttrs(cx, cy, r) ==
    Attrs([cx |-> NumStr(cx), cy |-> NumStr(cy), r |-> NumStr(r)])
EllipseAttrs(cx, cy, rx, ry) ==
    Attrs([cx |-> NumStr(cx), cy |-> NumStr(cy), rx |-> NumStr(rx), ry |-> NumStr(ry)])
LineAttrs(x1, y1, x2, y2) ==
    Attrs([x1 |-> NumStr(x1), y1 |-> NumStr(y1), x2 |-> NumStr(x2), y2 |-> NumStr(y2)])
PathAttrs(cmds) == Attrs([d |-> Render(cmds, {}, FALSE)])
PointsAttrs(numbers) == Attrs([points |-> JoinNumbers(numbers, " ")])
UseAttrs(k) == Attrs([href |-> <<"#">> \o NatStr(k)])

\* Node 1 holds nodes 2 and 3, node 2 holds node 4.
TreeChildren == [n \in Nodes |-> IF n = 1 THEN <<2, 3>> ELSE IF n = 2 THEN <<4>> ELSE <<>>]

Scenes ==
    { \* a g of rect(0,0,10,10) and circle(20,20,5)
      Scene(<<"g", "rect", "circle", "title">>,
            <<NoAttrs, RectAttrs(0, 0, 10, 10), CircleAttrs(20, 20, 5), NoAttrs>>,
            NoTexts),
      \* a g of a g of a path, and a rect of width -5
      Scene(<<"g", "g", "rect", "path">>,
            <<NoAttrs, NoAttrs, RectAttrs(10, 20, 0 - 5, 40),
              PathAttrs(<<Cmd("M", <<0, 0>>), Cmd("L", <<10, 10>>)>>)>>,
            NoTexts),
      \* a marker of a g of a text, and a horizontal line
      Scene(<<"marker", "g", "line", "text">>,
            <<NoAttrs, NoAttrs, LineAttrs(0, 5, 10, 5), NoAttrs>>,
            <<NoneV, NoneV, NoneV, BoxV(<<1, 1, 5, 5>>)>>),
      \* a g of a polygon and an ellipse
      Scene(<<"g", "polygon", "ellipse", "tspan">>,
            <<NoAttrs, PointsAttrs(<<0, 0, 6, 0, 3, 4>>), EllipseAttrs(5, 5, 3, 2), NoAttrs>>,
            NoTexts),
      \* a g of two paths: a single move, and a horizontal line
      Scene(<<"g", "path", "path", "textPath">>,
            <<NoAttrs, PathAttrs(<<Cmd("M", <<3, 4>>)>>),
              PathAttrs(<<Cmd("M", <<0, 0>>), Cmd("H", <<10>>)>>), NoAttrs>>,
            <<NoneV, NoneV, NoneV, BoxV(EMPTY_BOUNDING_BOX)>>),
      \* an svg of a use of the rect it holds, and a rect without attributes
      Scene(<<"svg", "use", "rect", "rect">>,
            <<NoAttrs, UseAttrs(4), NoAttrs, RectAttrs(1, 2, 3, 4)>>,
            NoTexts),
      \* a g of a use of nothing, and a polyline
      Scene(<<"g", "use", "polyline", "circle">>,
            <<NoAttrs, UseAttrs(9), PointsAttrs(<<1, 1>>), CircleAttrs(0, 0, 5)>>,
            NoTexts),
      \* a g of a g of a use of the rect beside it, which requires an extension
      Scene(<<"g", "g", "rect", "use">>,
            <<NoAttrs, NoAttrs,
              Attrs([width |-> NumStr(10), height |-> NumStr(10),
                     requiredExtensions |-> <<"e">>]),
              UseAttrs(3)>>,
            NoTexts) }

\* The values an external mutation gives an attribute.
NumberTexts == {Absent, <<"x">>, NumStr(0 - 5), NumStr(0), NumStr(10)}

PathTexts ==
    { Render(<<Cmd("M", <<3, 4>>)>>, {}, FALSE),
      Render(<<Cmd("M", <<0, 0>>), Cmd("L", <<10, 10>>)>>, {}, FALSE),
      Render(<<Cmd("M", <<0, 0>>), Cmd("H", <<10>>)>>, {}, FALSE),
      Render(<<Cmd("M", <<0, 0>>), Cmd("a", <<5, 5, 0, 1, 1, 10, 0>>)>>, {}, FALSE),
      Render(<<Cmd("L", <<>>)>>, {}, FALSE) }

PointsTexts == {Absent, JoinNumbers(<<0, 0, 6, 0, 3, 4>>, " "), JoinNumbers(<<1, 1>>, " ")}

HrefTexts == {Absent, <<"#", "4">>, <<"#", "9">>}

TextBoxes == {NoneV, BoxV(<<1, 1, 5, 5>>), BoxV(<<2, 2, 0, 3>>), BoxV(EMPTY_BOUNDING_BOX)}

\* The attributes the evaluator of a tag reads.
TagAttrs(t) ==
    IF t = "rect" THEN {"x", "y", "width", "height"}
    ELSE IF t = "circle" THEN {"cx", "cy", "r"}
    ELSE IF t = "ellipse" THEN {"cx", "cy", "rx", "ry"}
    ELSE IF t = "line" THEN {"x1", "y1", "x2", "y2"}
    ELSE IF t \in {"polyline", "polygon"} THEN {"points"}
    ELSE IF t = "path" THEN {"d"}
    ELSE IF t = "use" THEN {"href"}
    ELSE {}

AttrTexts(a) ==
    IF a = "d" THEN PathTexts
    ELSE IF a = "points" THEN PointsTexts
    ELSE IF a = "href" THEN HrefTexts
    ELSE IF a = "requiredExtensions" THEN {Absent, <<"e">>}
    ELSE NumberTexts

----------------------------------------------------------------------------
(* The tree: calls of calculate_bounding_box and external mutations *)

NoCall ==
    [node |-> 0, current |-> FALSE, had |-> NoneV, before |-> NoCache,
     value |-> NoneV, ret |-> NoneV, ran |-> {}, degenerate |-> {},
     redo |-> FALSE]

PathIdle ==
    /\ input = [cmds |-> <<>>, implicit |-> {}, compact |-> FALSE]
    /\ path_data = <<>>
    /\ letter = "M"
    /\ previous_x = 0
    /\ previous_y = 0
    /\ bounding_box = EMPTY_BOUNDING_BOX
    /\ pc = "idle"
    /\ exc = ""
    /\ step = [branch |-> "", arc |-> NoArc, box0 |-> EMPTY_BOUNDING_BOX,
               x0 |-> 0, y0 |-> 0, data0 |-> <<>>, letter0 |-> "M", done |-> 0]

Init ==
    /\ \E sc \in Scenes :
        /\ tag = sc.tag
        /\ attrs = sc.attrs
        /\ text_box = sc.text
    /\ children = TreeChildren
    /\ cache = NoCache
    /\ mutations = 0
    /\ last = NoCall
    /\ PathIdle

\* The call calculate_bounding_box(n) with the outcome r; value is what the
\* evaluator of n gave when it ran.
Called(n, r, value) ==
    /\ Returned(r.ret) \/ r.ret.kind = "raise"
    /\ cache' = r.cache
    /\ last' = [node |-> n, current |-> TRUE, had |-> cache[n], before |-> cache,
                value |-> value, ret |-> r.ret, ran |-> r.ran,
                degenerate |->
                    IF value.kind = "box" /\ ~is_non_empty_bounding_box(value)
                    THEN (last.degenerate \ r.ran) \cup {n}
                    ELSE last.degenerate \ r.ran,
                redo |-> n \in last.degenerate]
    /\ UNCHANGED <<tag, attrs, text_box, children, mutations, pathvars>>

\* A call calculate_bounding_box(n) that returns or raises.
Calculate(n) ==
    Called(n, calculate_bounding_box(n, cache),
           IF cache[n] = NoneV /\ tag[n] \in BOUNDING_BOX_METHODS
           THEN Evaluate(n, cache).ret ELSE NoneV)

Mutated ==
    /\ mutations < MaxMutations
    /\ mutations' = mutations + 1
    /\ last' = [last EXCEPT !.current = FALSE]
    /\ UNCHANGED <<tag, cache, pathvars>>

\* The caller sets or deletes an attribute.  A use is never made to refer to
\* itself: the code would recurse without end.
MutateAttr(n, a, v) ==
    /\ a \in TagAttrs(tag[n]) \cup {"requiredExtensions"}
    /\ v \in AttrTexts(a)
    /\ v # attrs[n][a]
    /\ ~(a = "href" /\ Resolve(v) = n)
    /\ attrs' = [attrs EXCEPT ![n][a] = v]
    /\ Mutated
    /\ UNCHANGED <<text_box, children>>

\* The text measurement attaches another box.
MutateText(n, v) ==
    /\ tag[n] \in {"text", "tspan", "textPath"}
    /\ v # text_box[n]
    /\ text_box' = [text_box EXCEPT ![n] = v]
    /\ Mutated
    /\ UNCHANGED <<attrs, children>>

\* The caller removes the first child of a node.
DetachChild(n) ==
    /\ children[n] # <<>>
    /\ children' = [children EXCEPT ![n] = Tail(@)]
    /\ Mutated
    /\ UNCHANGED <<attrs, text_box>>

Next ==
    \/ \E n \in Nodes : Calculate(n)
    \/ \E n \in Nodes, a \in AttrNames : \E v \in AttrTexts(a) : MutateAttr(n, a, v)
    \/ \E n \in Nodes, v \in TextBoxes : MutateText(n, v)
    \/ \E n \in Nodes : DetachChild(n)

Spec == Init /\ [][Next]_vars

----------------------------------------------------------------------------
(* One run of bounding_box_path, an iteration of its loop at a time *)

\* The number of operands of a well-formed command.
Arity(l) ==
    IF l \in {"M", "m", "L", "l", "T", "t"} THEN 2
    ELSE IF l \in {"C", "c"} THEN 6
    ELSE IF l \in {"Q", "q", "S", "s"} THEN 4
    ELSE IF l \in {"H", "h", "V", "v"} THEN 1
    ELSE IF l \in {"A", "a"} THEN 7
    ELSE 0

WellFormed(c) == Len(c.ops) = Arity(c.l)

CmdPool ==
    { Cmd("M", <<0, 0>>), Cmd("M", <<3, 4>>), Cmd("m", <<2, 0 - 1>>),
      Cmd("L", <<10, 10>>), Cmd("l", <<0 - 4, 5>>),
      Cmd("T", <<7, 2>>), Cmd("t", <<1, 1>>),
      Cmd("C", <<1, 9, 0 - 3, 2, 5, 5>>), Cmd("c", <<2, 2, 4, 0 - 6, 1, 1>>),
      Cmd("Q", <<8, 0 - 2, 6, 6>>), Cmd("q", <<0 - 1, 3, 2, 2>>),
      Cmd("S", <<0, 7, 4, 4>>), Cmd("s", <<3, 0 - 3, 1, 2>>),
      Cmd("H", <<10>>), Cmd("h", <<3>>), Cmd("V", <<10>>), Cmd("v", <<2>>),
      Cmd("A", <<5, 5, 0, 1, 1, 10, 0>>), Cmd("a", <<5, 5, 0, 1, 1, 10, 0>>),
      Cmd("A", <<0, 5, 0, 1, 1, 10, 5>>), Cmd("a", <<5, 5, 0, 0, 0, 0, 0>>),
      Cmd("Z", <<>>), Cmd("z", <<>>),
      \* malformed: operands missing, or operands after a letter that takes none
      Cmd("L", <<>>), Cmd("Z", <<1, 2>>), Cmd("A", <<5, 5>>) }

\* The commands whose letter may be left out: a command after one of the same
\* letter (or an L after an M, an l after an m), and a first M.
ImplicitOK(cmds, i) ==
    /\ WellFormed(cmds[i])
    /\ cmds[i].ops # <<>>
    /\ IF i = 1 THEN cmds[i].l = "M"
       ELSE /\ WellFormed(cmds[i - 1])
            /\ \/ cmds[i].l = cmds[i - 1].l
               \/ cmds[i - 1].l = "M" /\ cmds[i].l = "L"
               \/ cmds[i - 1].l = "m" /\ cmds[i].l = "l"

ImplicitPositions(cmds) == {i \in DOMAIN cmds : ImplicitOK(cmds, i)}

\* The interpreter's variables as one state of the loop.
Current ==
    PathState(path_data, letter, previous_x, previous_y, bounding_box, pc, exc,
              step.branch, step.arc)

\* The call bounding_box_path(node), up to the head of the loop, on a path
\* node whose 'd' attribute is written from some commands.
Started(in, d, st) ==
    /\ PathRun(st).pc # "outside"
    /\ input = in
    /\ tag = [n \in Nodes |-> IF n = 1 THEN "path" ELSE "title"]
    /\ attrs = [n \in Nodes |-> IF n = 1 THEN Attrs([d |-> d]) ELSE NoAttrs]
    /\ text_box = [n \in Nodes |-> NoneV]
    /\ children = [n \in Nodes |-> <<>>]
    /\ cache = NoCache
    /\ mutations = 0
    /\ last = NoCall
    /\ path_data = st.path_data
    /\ letter = st.letter
    /\ previous_x = st.previous_x
    /\ previous_y = st.previous_y
    /\ bounding_box = st.bounding_box
    /\ pc = st.pc
    /\ exc = st.exc
    /\ step = [branch |-> "", arc |-> NoArc, box0 |-> EMPTY_BOUNDING_BOX,
               x0 |-> 0, y0 |-> 0, data0 |-> <<>>, letter0 |-> "M", done |-> 0]

StartOn(in, d) == Started(in, d, PathStart(d))

PathInit ==
    \E k \in 0..MaxCmds : \E cmds \in [1..k -> CmdPool] :
        \E implicit \in SUBSET ImplicitPositions(cmds), compact \in BOOLEAN :
            StartOn([cmds |-> cmds, implicit |-> implicit, compact |-> compact],
                    Render(cmds, implicit, compact))

\* The state n follows the current one by an iteration of the loop.
Iterated(n) ==
    /\ path_data' = n.path_data
    /\ letter' = n.letter
    /\ previous_x' = n.previous_x
    /\ previous_y' = n.previous_y
    /\ bounding_box' = n.bounding_box
    /\ pc' = n.pc
    /\ exc' = n.exc
    /\ step' = [branch |-> n.branch, arc |-> n.arc, box0 |-> bounding_box,
                x0 |-> previous_x, y0 |-> previous_y, data0 |-> path_data,
                letter0 |-> letter,
                done |-> IF n.pc = "loop" /\ (n.path_data # path_data \/ n.letter # letter)
                         THEN step.done + 1 ELSE step.done]
    /\ UNCHANGED <<treevars, input>>

\* Lines 109-225: one iteration of the while loop.
PathIter ==
    /\ pc = "loop"
    /\ path_data # <<>>
    /\ Iterated(PathStep(Current))

\* Line 227.
PathReturn ==
    /\ pc = "loop"
    /\ path_data = <<>>
    /\ pc' = "return"
    /\ UNCHANGED <<treevars, input, path_data, letter, previous_x, previous_y,
                   bounding_box, exc, step>>

RunNext == PathIter \/ PathReturn

PathSpec == PathInit /\ [][RunNext]_vars

-----------------------------------------------------------------------------
(* extend_bounding_box on its own: the same points in one call and one call
   per point *)

\* The most points given to extend_bounding_box.
MaxPoints == 3

ExtendPoints == {<<x, y>> : x \in {0 - 2, 0, 3}, y \in {1, 5}}

\* The boxes to extend: the empty one and valid ones, one of them without a
\* size.
ExtendBoxes == {EMPTY_BOUNDING_BOX, <<1, 2, 0, 0>>, <<0 - 1, 2, 2, 1>>, <<2, 0, 4, 9>>}

ExtendInit ==
    \E box \in ExtendBoxes : \E k \in 1..MaxPoints : \E points \in [1..k -> ExtendPoints] :
        /\ input = [cmds |-> <<>>, implicit |-> {}, compact |-> FALSE]
        /\ tag = [n \in Nodes |-> "title"]
        /\ attrs = [n \in Nodes |-> NoAttrs]
        /\ text_box = [n \in Nodes |-> NoneV]
        /\ children = [n \in Nodes |-> <<>>]
        /\ cache = NoCache
        /\ mutations = 0
        /\ last = NoCall
        /\ path_data = <<>>
        /\ letter = "M"
        /\ previous_x = 0
        /\ previous_y = 0
        /\ bounding_box = box
        /\ pc = "extend"
        /\ exc = ""
        /\ step = [box0 |-> box, points |-> points, left |-> DOMAIN points,
                   whole |-> NoneV]

\* extend_bounding_box(box, points): one call with all the points.
ExtendAll ==
    /\ pc = "extend"
    /\ step.whole = NoneV
    /\ step' = [step EXCEPT !.whole = extend_bounding_box(step.box0, step.points)]
    /\ UNCHANGED <<treevars, input, path_data, letter, previous_x, previous_y,
                   bounding_box, pc, exc>>

\* bounding_box = extend_bounding_box(bounding_box, (point,)): one call with
\* one of the points not given yet.
ExtendOne ==
    /\ pc = "extend"
    /\ \E i \in step.left :
        /\ bounding_box' =
               extend_bounding_box(bounding_box, <<step.points[i]>>).box
        /\ step' = [step EXCEPT !.left = step.left \ {i}]
    /\ UNCHANGED <<treevars, input, path_data, letter, previous_x, previous_y,
                   pc, exc>>

ExtendNext == ExtendAll \/ ExtendOne

ExtendSpec == ExtendInit /\ [][ExtendNext]_vars

-----------------------------------------------------------------------------
(* The scan of the two flags of an A command, one assignment at a time *)

\* The longest data left after the rotation of the arc.
MaxFlag == 4

FlagChars == {"x", ".", "1", " "}

\* What line 119 can leave in path_data: the rest of normalised data after a
\* space, so it starts with no space and holds no two spaces in a row.
FlagData ==
    {d \in UNION {[1..k -> FlagChars] : k \in 0..MaxFlag} :
        /\ (Len(d) > 0 => d[1] # " ")
        /\ \A i \in 1..(Len(d) - 1) : ~(d[i] = " " /\ d[i + 1] = " ")}

NoFlag == [flag |-> <<>>, large |-> <<>>, data0 |-> <<>>]

FlagInit ==
    \E d \in FlagData :
        /\ input = [cmds |-> <<>>, implicit |-> {}, compact |-> FALSE]
        /\ tag = [n \in Nodes |-> IF n = 1 THEN "path" ELSE "title"]
        /\ attrs = [n \in Nodes |-> NoAttrs]
        /\ text_box = [n \in Nodes |-> NoneV]
        /\ children = [n \in Nodes |-> <<>>]
        /\ cache = NoCache
        /\ mutations = 0
        /\ last = NoCall
        /\ path_data = d
        /\ letter = "A"
        /\ previous_x = 0
        /\ previous_y = 0
        /\ bounding_box = EMPTY_BOUNDING_BOX
        /\ pc = "large"
        /\ exc = ""
        /\ step = [NoFlag EXCEPT !.data0 = d]

\* The scan goes on to where or fails as the assignment r says.
Scanned(r, to) ==
    /\ path_data' = r.rest
    /\ step' = [step EXCEPT !.flag = r.flag]
    /\ pc' = IF r.ok THEN to ELSE "raise"
    /\ exc' = IF r.ok THEN exc ELSE "IndexError"
    /\ UNCHANGED <<treevars, input, letter, previous_x, previous_y, bounding_box>>

\* Line 122 (125): the first character of the flag.
ScanFirst ==
    /\ pc \in {"large", "sweep"}
    /\ Scanned(ScanOnce(<<>>, path_data),
               IF pc = "large" THEN "largeloop" ELSE "sweeploop")

\* Lines 123-124 (126-127): the loop test fails and one more character is
\* added.
ScanIter ==
    /\ pc \in {"largeloop", "sweeploop"}
    /\ ~IsDigit(step.flag[Len(step.flag)])
    /\ Scanned(ScanOnce(step.flag, path_data), pc)

\* Line 123 (126): the last character is a digit and the loop ends.
ScanExit ==
    /\ pc \in {"largeloop", "sweeploop"}
    /\ IsDigit(step.flag[Len(step.flag)])
    /\ pc' = IF pc = "largeloop" THEN "sweep" ELSE "scanned"
    /\ step' = IF pc = "largeloop"
               THEN [step EXCEPT !.large = step.flag, !.flag = <<>>]
               ELSE step
    /\ UNCHANGED <<treevars, input, path_data, letter, previous_x, previous_y,
                   bounding_box, exc>>

FlagNext == ScanFirst \/ ScanIter \/ ScanExit

\* The interpreter runs on its own: a step that can be taken is taken.
FlagSpec == FlagInit /\ [][FlagNext]_vars /\ WF_vars(FlagNext)

----------------------------------------------------------------------------
(* Properties of calculate_bounding_box and of the evaluators *)

\* The last call ran on a node of a known kind that had no cached box, and
\* nothing was changed since.
FreshCall ==
    /\ last.current
    /\ last.had = NoneV
    /\ tag[last.node] \in BOUNDING_BOX_METHODS

GroupCall == FreshCall /\ tag[last.node] \in {"g", "marker"}

\* Combine folded over a sequence of values, from the box `box`.
RECURSIVE CombineAll(_, _)
CombineAll(values, box) ==
    IF values = <<>> THEN box
    ELSE CombineAll(Tail(values), combine_bounding_box(box, values[1]))

\* What the evaluator of the node k gives, in a tree without cached boxes.
OwnBox(k) ==
    IF tag[k] \in BOUNDING_BOX_METHODS THEN Evaluate(k, NoCache).ret ELSE NoneV

\* What calculate_bounding_box(k) gives, in a tree without cached boxes.
GivenBox(k) == calculate_bounding_box(k, NoCache).ret

\* The min/max rectangle of a non-empty set of points.
MinMaxBox(P) ==
    <<MinOf({p[1] : p \in P}), MinOf({p[2] : p \in P}),
      MaxOf({p[1] : p \in P}) - MinOf({p[1] : p \in P}),
      MaxOf({p[2] : p \in P}) - MinOf({p[2] : p \in P})>>

\* The points a well-formed list of coordinates names.
RECURSIVE PointSet(_)
PointSet(numbers) ==
    IF Len(numbers) < 2 THEN {}
    ELSE {<<numbers[1], numbers[2]>>} \cup PointSet(SubSeq(numbers, 3, Len(numbers)))

PointLists == {<<0, 0, 6, 0, 3, 4>>, <<1, 1>>}

\* C1: for a node of a known kind without a cached box, calculate_bounding_box
\* returns the box its evaluator computed whenever that box is valid, also
\* when its width or its height is zero.
C1_ReturnsEvaluatorBox ==
    (FreshCall /\ is_valid_bounding_box(last.value)) => last.ret = last.value

\* C2: every cache slot is either unwritten or holds a box with finite minX
\* and minY, width > 0 and height > 0, and the slot of a node of unknown kind
\* is never written.
C2_CacheHoldsNonEmpty ==
    \A n \in Nodes :
        cache[n] # NoneV =>
            /\ tag[n] \in BOUNDING_BOX_METHODS
            /\ cache[n].kind = "box"
            /\ ~isinf(cache[n].box[1]) /\ ~isinf(cache[n].box[2])
            /\ cache[n].box[3] > 0 /\ cache[n].box[4] > 0

\* A degenerate box was computed and not stored, while another node holds a
\* cached box and an attribute was changed before.
C2_Witness ==
    /\ FreshCall
    /\ mutations > 0
    /\ is_valid_bounding_box(last.value)
    /\ last.value.box[3] = 0
    /\ cache[last.node] = NoneV
    /\ \E m \in Nodes : cache[m] # NoneV

\* C3: a written cache slot never changes, and a call on a node with a cached
\* box returns that box and runs no evaluator, whatever was changed since the
\* box was stored.
C3_WrittenOnce ==
    [][/\ \A n \in Nodes : cache[n] # NoneV => cache'[n] = cache[n]
       /\ (last' # last /\ last'.current /\ last'.had # NoneV) =>
              /\ last'.ret = last'.had
              /\ last'.ran = {}
              /\ cache' = cache]_vars

\* A call returned the cached box of a node whose evaluator would now give
\* something else.
C3_Witness ==
    /\ last.current
    /\ last.had # NoneV
    /\ mutations > 0
    /\ last.ret = last.had
    /\ Evaluate(last.node, NoCache).ret # last.had

\* C4: the box of a g or marker is Combine folded over the boxes of its
\* children in order, from Empty: every child whose own box is valid, a box
\* of zero width or height included, contributes its two corners.
C4_GroupFoldsChildren ==
    (/\ GroupCall
     /\ mutations = 0
     /\ \A i \in DOMAIN children[last.node] :
            OwnBox(children[last.node][i]).kind # "raise")
    => last.value =
           BoxV(CombineAll([i \in DOMAIN children[last.node] |->
                                OwnBox(children[last.node][i])],
                           EMPTY_BOUNDING_BOX))

\* C5: the call on a g or marker completes although the evaluation of a
\* child fails, with the box of the children that did not fail.
C5_ChildFailureContained ==
    GroupCall =>
        /\ Returned(last.ret)
        /\ mutations = 0 =>
               last.value =
                   BoxV(CombineAll([i \in DOMAIN children[last.node] |->
                                        GivenBox(children[last.node][i])],
                                   EMPTY_BOUNDING_BOX))

\* C6: the evaluator of a polyline or polygon returns the min/max rectangle
\* of the points of its 'points' attribute, for a non-empty list of points.
C6_PolylineMinMax ==
    \A numbers \in PointLists :
        (/\ FreshCall
         /\ tag[last.node] \in {"polyline", "polygon"}
         /\ attrs[last.node]["points"] = JoinNumbers(numbers, " "))
        => last.value = BoxV(MinMaxBox(PointSet(numbers)))

ShapeTags == {"rect", "circle", "ellipse", "line", "path", "text", "tspan", "textPath"}

\* C11: when the call before on a shape node computed a box without a size
\* and the node's attributes now give a non-empty box, the next call on it
\* recomputes, returns the box of the new attributes and stores it.
C11_RecomputedAfterDegenerate ==
    (/\ last.current
     /\ last.redo
     /\ tag[last.node] \in ShapeTags
     /\ is_non_empty_bounding_box(OwnBox(last.node)))
    => /\ last.ret = OwnBox(last.node)
       /\ last.node \in last.ran
       /\ cache[last.node] = OwnBox(last.node)

\* A second call on a node whose first call gave a box without a size
\* returned a non-empty box after a mutation.
C11_Witness ==
    /\ last.current
    /\ mutations > 0
    /\ last.redo
    /\ tag[last.node] \in ShapeTags
    /\ last.had = NoneV
    /\ is_non_empty_bounding_box(last.ret)

GeometryTags ==
    {"rect", "circle", "ellipse", "line", "polyline", "polygon", "path", "g", "marker"}

\* C13: every box that the evaluator of a rect, circle, ellipse, line,
\* polyline, polygon, path or group returns has minX finite exactly when minY
\* is finite, and when it is valid its width and height are >= 0, whatever
\* the attributes are (missing, negative).
C13_SizesNotNegative ==
    (FreshCall /\ tag[last.node] \in GeometryTags /\ last.value.kind = "box") =>
        /\ isinf(last.value.box[1]) <=> isinf(last.value.box[2])
        /\ is_valid_bounding_box(last.value) =>
               last.value.box[3] >= 0 /\ last.value.box[4] >= 0

\* The evaluator of a rect with a negative width and a missing or negative
\* height, after a mutation, returned a valid box.
C13_Witness ==
    /\ FreshCall
    /\ mutations > 0
    /\ tag[last.node] = "rect"
    /\ FloatAttr(last.node, "width").ok
    /\ FloatAttr(last.node, "width").val < 0
    /\ attrs[last.node]["height"] \in {Absent, NumStr(0 - 5)}
    /\ is_valid_bounding_box(last.value)
    /\ last.value.box[3] = 0 /\ last.value.box[4] = 0

\* The node k is a use whose reference does not resolve, or resolves to a
\* node that does not apply.
UseWithoutTarget(k) ==
    /\ tag[k] = "use"
    /\ \/ Resolve(Get(k, "href", <<>>)) = 0
       \/ ~match_features(Resolve(Get(k, "href", <<>>)))

\* C12: a call on a use whose target does not resolve or does not apply
\* returns no box, raises nothing and stores nothing, and so does a call on
\* a g whose only child is such a use.
C12_UseWithoutTarget ==
    (last.current /\ last.had = NoneV) =>
        /\ UseWithoutTarget(last.node) =>
               last.ret = NoneV /\ cache[last.node] = NoneV
        /\ (/\ tag[last.node] = "g"
            /\ Len(children[last.node]) = 1
            /\ UseWithoutTarget(children[last.node][1])) =>
               last.ret = NoneV /\ cache[last.node] = NoneV

\* The part of C12 about a target that resolves and does not apply.
C12_InapplicableOnly ==
    (last.current /\ last.had = NoneV) =>
        /\ (/\ UseWithoutTarget(last.node)
            /\ Resolve(Get(last.node, "href", <<>>)) # 0) =>
               last.ret = NoneV /\ cache[last.node] = NoneV
        /\ (/\ tag[last.node] = "g"
            /\ Len(children[last.node]) = 1
            /\ UseWithoutTarget(children[last.node][1])
            /\ Resolve(Get(children[last.node][1], "href", <<>>)) # 0) =>
               last.ret = NoneV /\ cache[last.node] = NoneV

----------------------------------------------------------------------------
(* Properties of the path interpreter *)

\* The command of the last iteration: the one that failed, or the last one
\* that went through.
LastCmd ==
    input.cmds[IF pc = "raise" THEN step.done + 1 ELSE step.done]

\* An iteration on a well-formed H, h, V or v command has run.
AxisCall ==
    /\ step.branch \in {"H", "V"}
    /\ (IF pc = "raise" THEN step.done + 1 ELSE step.done) \in DOMAIN input.cmds
    /\ LastCmd.l \in {"H", "h", "V", "v"}
    /\ WellFormed(LastCmd)

\* The coordinate an H, h, V or v command names.
AxisTarget ==
    IF LastCmd.l = "H" \/ LastCmd.l = "V" THEN LastCmd.ops[1]
    ELSE IF LastCmd.l = "h" THEN step.x0 + LastCmd.ops[1]
    ELSE step.y0 + LastCmd.ops[1]

\* C7: an H or h (V or v) command with the operand n extends the box with
\* the point (X, penY) (resp. (penX, Y)) and then moves only penX (resp. only
\* penY) to that number.
C7_AxisCommands ==
    AxisCall =>
        /\ pc = "loop"
        /\ IF step.branch = "H"
           THEN /\ previous_x = AxisTarget
                /\ previous_y = step.y0
                /\ BoxV(bounding_box) =
                       extend_bounding_box(step.box0, << <<AxisTarget, step.y0>> >>)
           ELSE /\ previous_x = step.x0
                /\ previous_y = AxisTarget
                /\ BoxV(bounding_box) =
                       extend_bounding_box(step.box0, << <<step.x0, AxisTarget>> >>)

\* C8: after an A or a command, the box is the box before it extended with
\* the corners (minX, minY) and (maxX, maxY) of the rectangle
\* (minX, minY, width, height) that the arc solver returned.
C8_ArcCorners ==
    (step.branch = "A" /\ pc \in {"loop", "return"} /\ step.arc.kind = "box") =>
        BoxV(bounding_box) =
            extend_bounding_box(
                step.box0,
                << <<step.arc.box[1], step.arc.box[2]>>,
                   <<step.arc.box[1] + step.arc.box[3],
                     step.arc.box[2] + step.arc.box[4]>> >>)

MoveCurveLetters == {"M", "m", "L", "l", "T", "t", "C", "c", "Q", "q", "S", "s"}

\* The first k commands are well-formed M, L, T, C, Q or S commands.
MoveCurvePrefix(cmds, k) ==
    /\ k <= Len(cmds)
    /\ \A i \in 1..k : cmds[i].l \in MoveCurveLetters /\ WellFormed(cmds[i])

\* The j-th operand point of the command c, for the pen position `pen` held
\* when the command starts.
AbsPoint(c, pen, j) ==
    IF c.l \in {"m", "l", "t", "c", "q", "s"}
    THEN <<pen[1] + c.ops[2 * j - 1], pen[2] + c.ops[2 * j]>>
    ELSE <<c.ops[2 * j - 1], c.ops[2 * j]>>

\* The pen position after the first k commands.
RECURSIVE PenAfter(_, _)
PenAfter(cmds, k) ==
    IF k = 0 THEN <<0, 0>>
    ELSE AbsPoint(cmds[k], PenAfter(cmds, k - 1), Len(cmds[k].ops) \div 2)

\* The absolute operand points of the first k commands.
PointsOf(cmds, k) ==
    UNION {{AbsPoint(cmds[i], PenAfter(cmds, i - 1), j) :
                j \in 1..(Len(cmds[i].ops) \div 2)} : i \in 1..k}

\* C9: after M, L, T, C, Q and S commands, absolute or relative, the pen is
\* at the absolute end point of the last command and the box is the min/max
\* rectangle of the absolute operand points of all of them.
C9_MoveCurvePoints ==
    (/\ pc \in {"loop", "return"}
     /\ step.done >= 1
     /\ MoveCurvePrefix(input.cmds, step.done))
    => /\ <<previous_x, previous_y>> = PenAfter(input.cmds, step.done)
       /\ bounding_box = MinMaxBox(PointsOf(input.cmds, step.done))

\* Two commands went through, the second a relative curve or quadratic that
\* started away from the origin.
C9_Witness ==
    /\ pc = "return"
    /\ step.done >= 2
    /\ MoveCurvePrefix(input.cmds, step.done)
    /\ input.cmds[step.done].l \in {"c", "q", "s"}
    /\ PenAfter(input.cmds, step.done - 1) # <<0, 0>>

AllWellFormed(cmds) == \A i \in DOMAIN cmds : WellFormed(cmds[i])

\* C10: before any letter the interpreter holds the letter M, the pen (0,0)
\* and the Empty box, and path data that leaves out repeated command letters
\* gives the same result as the data with every letter written out.
C10_ImplicitRepetition ==
    /\ step.branch = "" =>
           /\ letter = "M" /\ previous_x = 0 /\ previous_y = 0
           /\ bounding_box = EMPTY_BOUNDING_BOX
    /\ (pc \in {"return", "raise"} /\ AllWellFormed(input.cmds)) =>
           PathValue(Current) =
               bounding_box_path(Render(input.cmds, {}, input.compact))

\* A run returned on data whose second command, one of four or more
\* operands, was written without its letter.
C10_Witness ==
    /\ pc = "return"
    /\ AllWellFormed(input.cmds)
    /\ 2 \in input.implicit
    /\ Len(input.cmds[2].ops) >= 4

\* C14: every iteration of the loop that does not end the call with a
\* failure leaves path data strictly shorter than it found, so that the loop
\* ends on every path data.
C14_IterationShortens ==
    (pc = "loop" /\ step.branch # "") => Len(path_data) < Len(step.data0)

\* An iteration on a well-formed A or a command has run: its seven operands
\* are numbers, so that the arc solver has been called.
ArcCall ==
    /\ step.branch = "A"
    /\ (IF pc = "raise" THEN step.done + 1 ELSE step.done) \in DOMAIN input.cmds
    /\ LastCmd.l \in {"A", "a"}
    /\ WellFormed(LastCmd)

\* C16: on numeric input the arc solver never fails with an error: for every
\* arc, the degenerate ones included (a zero radius, radii too small, start =
\* end with non-zero radii), it returns a rectangle.
C16_ArcSolverReturns ==
    ArcCall => (pc # "raise" /\ step.arc.kind = "box")

\* The end point an A or a command names.
ArcTarget ==
    IF LastCmd.l = "a"
    THEN <<step.x0 + LastCmd.ops[6], step.y0 + LastCmd.ops[7]>>
    ELSE <<LastCmd.ops[6], LastCmd.ops[7]>>

\* The rectangle (minX, minY, width, height) spanned by two points.
Spanned(p, q) ==
    <<Min2(p[1], q[1]), Min2(p[2], q[2]), Abs(q[1] - p[1]), Abs(q[2] - p[2])>>

\* The path is a move to a point and one arc, and both have run.
MoveThenArc ==
    /\ Len(input.cmds) = 2
    /\ input.cmds[1].l = "M"
    /\ step.done = 2

\* C17: with rx = 0 or ry = 0 the arc solver returns the rectangle spanned by
\* the two end points as (min(x1,x), min(y1,y), |x - x1|, |y - y1|), and a
\* path that moves to (x1,y1) and draws such an arc to (x,y) has exactly that
\* box.
C17_ZeroRadiusArc ==
    (ArcCall /\ (LastCmd.ops[1] = 0 \/ LastCmd.ops[2] = 0)) =>
        /\ step.arc = BoxV(Spanned(<<step.x0, step.y0>>, ArcTarget))
        /\ MoveThenArc => bounding_box = Spanned(<<step.x0, step.y0>>, ArcTarget)

\* The second half of C17 alone: the box of the path.
C17_ZeroRadiusPath ==
    (ArcCall /\ (LastCmd.ops[1] = 0 \/ LastCmd.ops[2] = 0) /\ MoveThenArc) =>
        bounding_box = Spanned(<<step.x0, step.y0>>, ArcTarget)

\* An iteration has run on the arc from (0,0) to (10,0) with rx = ry = 5,
\* rotation 0, large-arc flag 1 and sweep flag 1.
SemicircleCall ==
    /\ ArcCall
    /\ step.x0 = 0
    /\ step.y0 = 0
    /\ LastCmd.ops = <<5, 5, 0, 1, 1, 10, 0>>

\* C18 as stated: for the arc from (0,0) to (10,0) with rx = ry = 5, rotation
\* 0, largeArc = 1 and sweep = 1, the arc solver returns a box of height 10
\* whose x-span is [0,10] (minX = 0, width = 10).
C18_SemicircleHeightTen ==
    SemicircleCall =>
        /\ step.arc.kind = "box"
        /\ step.arc.box[1] = 0
        /\ step.arc.box[3] = 10
        /\ step.arc.box[4] = 10

\* C18 amended: for that arc the solver returns the box of the half circle it
\* sweeps, (0, -5, 10, 5): the x-span is [0,10] and the height is 5, from
\* minY = -5 to the chord at y = 0.
C18_SemicircleBox ==
    SemicircleCall => step.arc = BoxV(<<0, 0 - 5, 10, 5>>)

C18_Witness ==
    /\ SemicircleCall
    /\ pc \in {"loop", "return"}
    /\ step.arc.kind = "box"

-----------------------------------------------------------------------------
(* Claims about the flag scan (specification FlagSpec) *)

NoDigit(s) == \A i \in DOMAIN s : ~IsDigit(s[i])

FlagScanOver == pc \in {"scanned", "raise"}

\* C15: the scan for the large-arc and sweep flags is bounded: what it has
\* put into the flags and what is left of the data never exceed the data it
\* started with, every scan ends, and a flag field of non-digits with no
\* terminating digit ends it with a failure (IndexError).
C15_FlagScanBounded ==
    /\ [](Len(step.large) + Len(step.flag) + Len(path_data) <= Len(step.data0))
    /\ <>FlagScanOver
    /\ ((pc \in {"large", "sweep"} /\ NoDigit(path_data))
            ~> (pc = "raise" /\ exc = "IndexError"))

C15_Witness ==
    /\ pc = "raise"
    /\ exc = "IndexError"
    /\ Len(step.flag) >= 2
    /\ NoDigit(step.flag)
    /\ path_data = <<>>

-----------------------------------------------------------------------------
(* Claims about extend_bounding_box (specification ExtendSpec) *)

====
